---- MODULE Spec2Model ----
(***************************************************************************)
(* A model of the forecasting page (src/pages/2_forecast.py) and of the    *)
(* weather-API client (src/utils/api.py).                                  *)
(*                                                                         *)
(* Python floats are modelled as exact rationals n/d (d > 0) together with *)
(* the three IEEE specials NaN, +inf and -inf; Python's None shares the    *)
(* record shape so that optional floats can be compared.  Every comparison *)
(* follows IEEE: a comparison with NaN is false.                           *)
(***************************************************************************)
EXTENDS Integers, Sequences, FiniteSets, TLC

(***************************************************************************)
(* Bounds of the model.                                                    *)
(***************************************************************************)
MaxOk == 2          \* at most this many candidate fits succeed
Denom == 2          \* raw forecasts are multiples of 1/Denom
MaxRaw == 3         \* raw forecast numerators range over -MaxRaw..MaxRaw
MaxPValue == 6      \* stationarity p-values are 0..MaxPValue hundredths
MaxRows == 2        \* rows of the input table
MaxDay == 3         \* dates of the input table are days 1..MaxDay
MaxCount == 1       \* parsed capture counts are 0..MaxCount
MaxItems == 1       \* entries of a JSON list in an HTTP response
MaxDates == 2       \* days of a historical-weather request are 1..MaxDates

(***************************************************************************)
(* Floats.                                                                 *)
(***************************************************************************)
Q(n, d) == [k |-> "fin", n |-> n, d |-> d]
NaN == [k |-> "nan", n |-> 0, d |-> 1]
PosInf == [k |-> "inf", n |-> 1, d |-> 1]
NegInf == [k |-> "inf", n |-> -1, d |-> 1]
None == [k |-> "none", n |-> 0, d |-> 1]

IsNone(a) == a.k = "none"
IsNaN(a) == a.k = "nan"
IsFinite(a) == a.k = "fin"

\* a < b on floats: false when either side is NaN.
Lt(a, b) ==
    /\ a.k # "nan" /\ b.k # "nan"
    /\ \/ a.k = "fin" /\ b.k = "fin" /\ a.n * b.d < b.n * a.d
       \/ a = NegInf /\ b # NegInf
       \/ b = PosInf /\ a # PosInf

\* a == b on floats: false when either side is NaN.
Eq(a, b) ==
    /\ a.k # "nan" /\ b.k # "nan"
    /\ \/ a.k = "fin" /\ b.k = "fin" /\ a.n * b.d = b.n * a.d
       \/ a.k = "inf" /\ a = b

Gt(a, b) == Lt(b, a)
Le(a, b) == Lt(a, b) \/ Eq(a, b)
Ge(a, b) == Le(b, a)

\* a / b for a divisor that is not zero.
FDiv(a, b) ==
    IF a.k = "nan" \/ b.k = "nan" THEN NaN
    ELSE IF a.k = "inf" /\ b.k = "inf" THEN NaN
    ELSE IF b.k = "inf" THEN Q(0, 1)
    ELSE IF a.k = "inf" THEN (IF (b.n > 0) = (a.n > 0) THEN PosInf ELSE NegInf)
    ELSE IF b.n > 0 THEN Q(a.n * b.d, a.d * b.n)
    ELSE Q(-(a.n * b.d), a.d * (-b.n))

\* a + b and a - b on floats: inf - inf is NaN.
FAdd(a, b) ==
    IF a.k = "nan" \/ b.k = "nan" THEN NaN
    ELSE IF a.k = "inf" /\ b.k = "inf" THEN (IF a = b THEN a ELSE NaN)
    ELSE IF a.k = "inf" THEN a
    ELSE IF b.k = "inf" THEN b
    ELSE Q(a.n * b.d + b.n * a.d, a.d * b.d)
FNeg(a) ==
    IF a.k = "fin" THEN Q(-a.n, a.d)
    ELSE IF a = PosInf THEN NegInf
    ELSE IF a = NegInf THEN PosInf
    ELSE a
FSub(a, b) == FAdd(a, FNeg(b))

(***************************************************************************)
(* auto_arimax: the order search.                                          *)
(***************************************************************************)
p_vals == <<0, 1, 2, 3>>
d_vals == <<0, 1>>
q_vals == <<0, 1, 2, 3>>

\* The candidates in the order the three nested loops visit them.
Grid ==
    [i \in 1..(Len(p_vals) * Len(d_vals) * Len(q_vals)) |->
        << p_vals[((i - 1) \div (Len(d_vals) * Len(q_vals))) + 1],
           d_vals[(((i - 1) \div Len(q_vals)) % Len(d_vals)) + 1],
           q_vals[((i - 1) % Len(q_vals)) + 1] >>]

GridSet == {Grid[i] : i \in 1..Len(Grid)}

\* The outcome of SARIMAX(...).fit() for one order: an exception, or a
\* results object with its aic.  fit maps the orders whose fit succeeds to
\* their aic; every other order raises.
FitFails == [ok |-> FALSE, aic |-> NaN]
FitOk(s) == [ok |-> TRUE, aic |-> s]
FitOutcome(fit, c) == IF c \in DOMAIN fit THEN FitOk(fit[c]) ELSE FitFails

NoOrder == <<>>
NoRes == [fitted |-> FALSE, order |-> NoOrder]
Res(c) == [fitted |-> TRUE, order |-> c]

\* best = (None, np.inf, None)
InitialBestNaN == [order |-> NoOrder, aic |-> NaN, res |-> NoRes]
InitialBest == [order |-> NoOrder, aic |-> PosInf, res |-> NoRes]

ImprovesOrTies(aic, bestAic) == Le(aic, bestAic)
\* if r.aic < best[1]
Improves(aic, bestAic) == Lt(aic, bestAic)

AfterFailureBreak(i) == Len(Grid) + 1
\* except Exception: continue
AfterFailure(i) == i + 1

\* The loop from candidate i on; log is the sequence of orders handed to
\* SARIMAX so far.
RECURSIVE SearchLoop(_, _, _, _)
SearchLoop(i, best, log, fit) ==
    IF i > Len(Grid) THEN [best |-> best, attempts |-> log]
    ELSE LET c == Grid[i]
             o == FitOutcome(fit, c)
         IN IF o.ok
            THEN SearchLoop(i + 1,
                            IF Improves(o.aic, best.aic)
                            THEN [order |-> c, aic |-> o.aic, res |-> Res(c)]
                            ELSE best,
                            Append(log, c), fit)
            ELSE SearchLoop(AfterFailure(i), best, Append(log, c), fit)

auto_arimax(fit) == SearchLoop(1, InitialBest, <<>>, fit)

(***************************************************************************)
(* load_cicalino_data: series preparation.                                 *)
(*                                                                         *)
(* A spreadsheet cell is [ok, v]: ok tells whether its text parses, v is   *)
(* the day number or the number it parses to.  A table is a sequence of    *)
(* rows of four cells.                                                     *)
(***************************************************************************)
Cell(ok, v) == [ok |-> ok, v |-> v]

\* pd.to_datetime(..., errors="coerce") and pd.to_numeric(..., errors="coerce"):
\* the parsed value, or the missing value (NaT, NaN).
Coerce(cell) == IF cell.ok THEN Q(cell.v, 1) ELSE NaN

CoerceRows(rows) ==
    [i \in 1..Len(rows) |->
        [Date |-> Coerce(rows[i].Date),
         temperature_mean |-> Coerce(rows[i].temperature_mean),
         relativehumidity_mean |-> Coerce(rows[i].relativehumidity_mean),
         males |-> Coerce(rows[i].males)]]

RowComplete(r) ==
    /\ ~IsNaN(r.Date)
    /\ ~IsNaN(r.temperature_mean)
    /\ ~IsNaN(r.relativehumidity_mean)
    /\ ~IsNaN(r.males)

\* df.dropna(subset=[the four columns])
DropNa(rows) == SelectSeq(rows, RowComplete)

\* df.sort_values("Date"): rows by ascending date, equal dates in their
\* original order.
SortByDate(rows) ==
    LET pos(i) == 1 + Cardinality({j \in 1..Len(rows) :
                        \/ rows[j].Date.n < rows[i].Date.n
                        \/ rows[j].Date.n = rows[i].Date.n /\ j < i})
    IN [k \in 1..Len(rows) |-> rows[CHOOSE i \in 1..Len(rows) : pos(i) = k]]

HasDuplicateDates(rows) ==
    \E i, j \in 1..Len(rows) : i # j /\ rows[i].Date.n = rows[j].Date.n

\* set_index("Date").asfreq("D") on sorted rows: an empty frame stays
\* empty; a duplicated date makes the reindex raise; otherwise one row per
\* calendar day from the first date to the last, missing days all-NaN.
AsFreqD(rows) ==
    IF Len(rows) = 0 THEN [raised |-> FALSE, index |-> <<>>, rows |-> <<>>]
    ELSE IF HasDuplicateDates(rows) THEN [raised |-> TRUE, index |-> <<>>, rows |-> <<>>]
    ELSE LET first == rows[1].Date.n
             last == rows[Len(rows)].Date.n
             at(day) == IF \E i \in 1..Len(rows) : rows[i].Date.n = day
                        THEN rows[CHOOSE i \in 1..Len(rows) : rows[i].Date.n = day]
                        ELSE [Date |-> Q(day, 1), temperature_mean |-> NaN,
                              relativehumidity_mean |-> NaN, males |-> NaN]
         IN [raised |-> FALSE,
             index |-> [k \in 1..(last - first + 1) |-> first + k - 1],
             rows |-> [k \in 1..(last - first + 1) |-> at(first + k - 1)]]

\* Series.interpolate(limit_direction="both"): linear between the valid
\* neighbours, the nearest valid value at either edge.
Interpolate(col) ==
    LET valid(t) == ~IsNaN(col[t])
        before(t) == {a \in 1..Len(col) : a < t /\ valid(a)}
        after(t) == {b \in 1..Len(col) : b > t /\ valid(b)}
        prevOf(t) == CHOOSE a \in before(t) : \A x \in before(t) : x <= a
        nextOf(t) == CHOOSE b \in after(t) : \A x \in after(t) : b <= x
        fill(t) ==
            IF valid(t) THEN col[t]
            ELSE IF before(t) # {} /\ after(t) # {}
            THEN LET a == prevOf(t)
                     b == nextOf(t)
                 IN Q(col[a].n * col[b].d * (b - t) + col[b].n * col[a].d * (t - a),
                      col[a].d * col[b].d * (b - a))
            ELSE IF before(t) # {} THEN col[prevOf(t)]
            ELSE IF after(t) # {} THEN col[nextOf(t)]
            ELSE NaN
    IN [t \in 1..Len(col) |-> fill(t)]

Column(rows, name) == [t \in 1..Len(rows) |-> rows[t][name]]

load_cicalino_data(tbl) ==
    LET df == AsFreqD(SortByDate(DropNa(CoerceRows(tbl))))
        temp == Interpolate(Column(df.rows, "temperature_mean"))
        hum == Interpolate(Column(df.rows, "relativehumidity_mean"))
        males == Interpolate(Column(df.rows, "males"))
    IN IF df.raised
       THEN [raised |-> TRUE, index |-> <<>>, y |-> <<>>, ex |-> <<>>]
       ELSE [raised |-> FALSE,
             index |-> df.index,
             y |-> males,
             ex |-> [t \in 1..Len(df.index) |->
                        [temperature |-> temp[t], humidity |-> hum[t]]]]

(***************************************************************************)
(* The forecaster's projection onto non-negative integers.                 *)
(***************************************************************************)
PyMinFirst(a, b) == a
\* Python's min(a, b) and max(a, b): the first argument unless the second
\* compares strictly below (above) it.
PyMin(a, b) == IF Lt(b, a) THEN b ELSE a
PyMax(a, b) == IF Gt(b, a) THEN b ELSE a

\* round(x) raises on NaN (ValueError) and on an infinity (OverflowError).
RoundRaises(x) == ~IsFinite(x)

\* int(round(x)) for a finite x: nearest integer, a half to the even one.
Round(x) ==
    LET fl == x.n \div x.d
        rem == x.n % x.d
    IN IF 2 * rem < x.d THEN fl
       ELSE IF 2 * rem > x.d THEN fl + 1
       ELSE IF fl % 2 = 0 THEN fl ELSE fl + 1

NoClamp(n) == n
\* max(0, n)
Clamp(n) == IF n > 0 THEN n ELSE 0

(***************************************************************************)
(* The interpreter's rule tables.                                          *)
(***************************************************************************)
ADF_ALPHA == Q(5, 100)      \* 0.05
RATIO_LOW == Q(1, 2)        \* 0.5
RATIO_HIGH == Q(1, 1)       \* 1.0

DMessageInclusive(d, adf_pv) ==
    IF d = 0 /\ ~IsNone(adf_pv)
    THEN (IF Le(adf_pv, ADF_ALPHA) THEN "d0_already_stationary"
          ELSE "d0_handled_by_arma_or_exog")
    ELSE IF d >= 1 /\ ~IsNone(adf_pv)
    THEN (IF Gt(adf_pv, ADF_ALPHA) THEN "d_differencing_applied"
          ELSE "d_prefers_differencing")
    ELSE "d_selected_for_stability"
\* The message about d.
DMessage(d, adf_pv) ==
    IF d = 0 /\ ~IsNone(adf_pv)
    THEN (IF Lt(adf_pv, ADF_ALPHA) THEN "d0_already_stationary"
          ELSE "d0_handled_by_arma_or_exog")
    ELSE IF d >= 1 /\ ~IsNone(adf_pv)
    THEN (IF Ge(adf_pv, ADF_ALPHA) THEN "d_differencing_applied"
          ELSE "d_prefers_differencing")
    ELSE "d_selected_for_stability"

PMessage(p) ==
    IF p = 0 THEN "p_limited"
    ELSE IF p \in {1, 2} THEN "p_moderate_memory"
    ELSE "p_deeper_memory"

QMessage(q) ==
    IF q = 0 THEN "q_unstructured"
    ELSE IF q \in {1, 2} THEN "q_short_shocks"
    ELSE "q_complex"

dynamic_pdq_interpretation(p, d, q, adf_pv) ==
    << DMessage(d, adf_pv), PMessage(p), QMessage(q) >>

RatioBucketLoose(ratio) ==
    IF Le(ratio, RATIO_LOW) THEN "contained"
    ELSE IF Lt(ratio, RATIO_HIGH) THEN "in_line"
    ELSE "exceed"
RatioBucket(ratio) ==
    IF Lt(ratio, RATIO_LOW) THEN "contained"
    ELSE IF Lt(ratio, RATIO_HIGH) THEN "in_line"
    ELSE "exceed"

GentleFidelityNotesUnguarded(rmse, y_std) ==
    << RatioBucket(FDiv(rmse, y_std)), "hint_compare_peaks" >>
gentle_fidelity_notes(rmse, y_std) ==
    IF IsNone(y_std) \/ Eq(y_std, Q(0, 1)) \/ IsNaN(y_std)
    THEN << "low_variability" >>
    ELSE << RatioBucket(FDiv(rmse, y_std)), "hint_compare_peaks" >>

(***************************************************************************)
(* src/utils/api.py: the weather-API client.                               *)
(*                                                                         *)
(* What requests.get meets: a timeout or connection error (net = "down"),  *)
(* or a response with a status and a body.  A body is text that is not     *)
(* JSON, a JSON list, or a JSON object that may hold a 'list' and may hold *)
(* other keys ({} holds neither).  An entry                                *)
(* is [ok, t, a, b]: ok is false when a key the client reads is missing;   *)
(* t is the entry's day ('dt'), a and b the two values read from it (name  *)
(* and country, lat and lon, or temp and humidity).                        *)
(***************************************************************************)
Entries == [ok : {TRUE}, t : 1..MaxDates, a : {10, 20}, b : {50}]
              \cup {[ok |-> FALSE, t |-> 1, a |-> 10, b |-> 50]}
EntryLists == UNION {[1..n -> Entries] : n \in 0..MaxItems}
Bodies ==
    {[kind |-> "not_json", has_list |-> FALSE, other_keys |-> FALSE, items |-> <<>>],
     [kind |-> "object", has_list |-> FALSE, other_keys |-> FALSE, items |-> <<>>],
     [kind |-> "object", has_list |-> FALSE, other_keys |-> TRUE, items |-> <<>>]}
    \cup {[kind |-> "list", has_list |-> FALSE, other_keys |-> FALSE, items |-> l] :
             l \in EntryLists}
    \cup {[kind |-> "object", has_list |-> TRUE, other_keys |-> FALSE, items |-> l] :
             l \in EntryLists}
Down == [net |-> "down", status |-> 0,
         body |-> [kind |-> "not_json", has_list |-> FALSE, other_keys |-> FALSE,
                   items |-> <<>>]]
Responses == {Down} \cup [net : {"up"}, status : {200, 304, 404, 500}, body : Bodies]

RetBool(v) == [kind |-> "bool", b |-> v, items |-> <<>>, exc |-> "none"]
RetList(l) == [kind |-> "list", b |-> FALSE, items |-> l, exc |-> "none"]
RetPair(u, v) == [kind |-> "pair", b |-> FALSE, items |-> << u, v >>, exc |-> "none"]
RetNonePair == [kind |-> "none_pair", b |-> FALSE, items |-> <<>>, exc |-> "none"]
RetNone == [kind |-> "none", b |-> FALSE, items |-> <<>>, exc |-> "none"]
Raised(e) == [kind |-> "raised", b |-> FALSE, items |-> <<>>, exc |-> e]

RECURSIVE SumOf(_, _)
SumOf(l, f) == IF Len(l) = 0 THEN 0 ELSE l[1][f] + SumOf(Tail(l), f)

\* r.json() raises when the body is not JSON.
JsonRaises(r) == r.body.kind = "not_json"
\* The JSON object {}: no key to iterate over, and falsy.
EmptyObject(r) ==
    r.body.kind = "object" /\ ~r.body.has_list /\ ~r.body.other_keys
\* Reading a key of an entry raises KeyError when the key is missing.
SomeKeyMissing(l) == \E i \in 1..Len(l) : ~l[i].ok

test_api_key(r) ==
    IF r.net = "down" THEN RetBool(FALSE)
    ELSE RetBool(r.status = 200)

get_city_suggestions(r) ==
    IF r.net = "down" THEN Raised("RequestException")
    ELSE IF r.status # 200 THEN RetList(<<>>)
    ELSE IF JsonRaises(r) THEN Raised("JSONDecodeError")
    ELSE IF EmptyObject(r) THEN RetList(<<>>)
    \* item is a key of the object, a string: item['name'] raises TypeError
    ELSE IF r.body.kind = "object" THEN Raised("TypeError")
    ELSE IF SomeKeyMissing(r.body.items) THEN Raised("KeyError")
    ELSE RetList([i \in 1..Len(r.body.items) |->
                    << r.body.items[i].a, r.body.items[i].b >>])

geocode_city(r) ==
    IF r.net = "down" THEN Raised("RequestException")
    ELSE IF r.status # 200 THEN RetNonePair
    ELSE IF JsonRaises(r) THEN Raised("JSONDecodeError")
    ELSE IF EmptyObject(r) THEN RetNonePair
    \* r.json()[0] on a non-empty object raises KeyError
    ELSE IF r.body.kind = "object" THEN Raised("KeyError")
    ELSE IF Len(r.body.items) = 0 THEN RetNonePair
    ELSE IF ~r.body.items[1].ok THEN Raised("KeyError")
    ELSE RetPair(r.body.items[1].a, r.body.items[1].b)

\* One day of the historical loop raises inside the try: the request, then
\* raise_for_status (a status from 400 to 599), r.json(), data.get on a JSON
\* list, or a missing key.
DayRaises(r) ==
    \/ r.net = "down"
    \/ r.status \in 400..599
    \/ JsonRaises(r)
    \/ r.body.kind = "list"
    \/ SomeKeyMissing(r.body.items)

DayMeans(date, l) ==
    [date |-> date, temperature |-> Q(SumOf(l, "a"), Len(l)),
     humidity |-> Q(SumOf(l, "b"), Len(l))]

\* The while loop from date on; rs[date] is what the request for that day
\* meets.
RECURSIVE HistoricalLoop(_, _, _, _)
HistoricalLoop(date, end_date, rs, weather_data) ==
    IF date > end_date THEN RetList(weather_data)
    ELSE IF DayRaises(rs[date]) THEN RetNone
    ELSE HistoricalLoop(date + 1, end_date, rs,
                        IF Len(rs[date].body.items) > 0
                        THEN Append(weather_data, DayMeans(date, rs[date].body.items))
                        ELSE weather_data)

get_historical_weather_data(start_date, end_date, rs) ==
    HistoricalLoop(start_date, end_date, rs, <<>>)

\* The daily means of the entries, by ascending day, cut to horizon_days.
DailyRows(l, horizon_days) ==
    LET days == {l[i].t : i \in 1..Len(l)}
        of(day) == SelectSeq(l, LAMBDA e : e.t = day)
        rank(day) == 1 + Cardinality({x \in days : x < day})
        kept == {day \in days : rank(day) <= horizon_days}
    IN [k \in 1..Cardinality(kept) |->
           DayMeans(CHOOSE day \in kept : rank(day) = k,
                    of(CHOOSE day \in kept : rank(day) = k))]

get_future_weather_exog(r, horizon_days) ==
    IF r.net = "down" THEN Raised("RequestException")
    ELSE IF r.status # 200 THEN RetNone
    ELSE IF JsonRaises(r) THEN Raised("JSONDecodeError")
    ELSE IF r.body.kind = "list" THEN Raised("AttributeError")
    ELSE IF SomeKeyMissing(r.body.items) THEN Raised("KeyError")
    ELSE IF Len(DailyRows(r.body.items, horizon_days)) = 0 THEN RetNone
    ELSE RetList(DailyRows(r.body.items, horizon_days))

(***************************************************************************)
(* main(): one forecast request.                                           *)
(*                                                                         *)
(* The libraries are deterministic functions of the prepared data, so what *)
(* they answer is fixed when the request starts: fits (SARIMAX per order), *)
(* adf_env (adfuller), fc_env (get_forecast: predicted mean and the two    *)
(* interval bounds) and diag_env (RMSE and the standard deviation of the   *)
(* evaluated actual values).                                               *)
(***************************************************************************)
VARIABLES table, fits, adf_env, fc_env, diag_env,
          pc, exc, idx, y, ex, adf_p, order, aic, res, attempts, returned,
          next_day, ex_future, y_hat, lower, upper, notes, msgs, ui,
          run, prev,
          api_pc, api_call, api_ret

env == << table, fits, adf_env, fc_env, diag_env >>
computed == << idx, y, ex, adf_p, order, aic, res, attempts, returned,
               next_day, ex_future, y_hat, lower, upper, notes, msgs, ui >>
apivars == << api_pc, api_call, api_ret >>
mainvars == << env, pc, exc, computed, run, prev >>
vars == << mainvars, apivars >>

Unassigned == -1
\* pandas' NaT, the missing timestamp.
NaT == -2

\* An exception that nothing catches ends the request.
Raise(name) == pc' = "raised" /\ exc' = name

\* Step 1: y, ex = load_cicalino_data()
Load ==
    /\ pc = "load"
    /\ \E r \in {load_cicalino_data(table)} :
          IF r.raised
          THEN /\ Raise("ValueError_duplicate_labels")
               /\ UNCHANGED << idx, y, ex >>
          ELSE /\ pc' = "adf"
               /\ idx' = r.index
               /\ y' = r.y
               /\ ex' = r.ex
               /\ UNCHANGED exc
    /\ UNCHANGED << env, adf_p, order, aic, res, attempts, returned, next_day, ex_future,
                    y_hat, lower, upper, notes, msgs, ui, run, prev, apivars >>

\* adfuller(y): raises on an empty series, else what the library answers
\* (None stands for an exception, otherwise the p-value).
adfuller(series) == IF Len(series) = 0 THEN None ELSE adf_env

AfterAdfUncaught(a) == IF IsNone(a) THEN "raised" ELSE "search"
\* try: ... except Exception: adf_p = None -- the request goes on to the
\* search whatever the test did.
AfterAdf(a) == "search"

\* Step 2: the informational ADF test inside try/except.
Adf ==
    /\ pc = "adf"
    /\ \E a \in {adfuller(y)} :
          /\ adf_p' = a
          /\ ui' = Append(ui, IF IsNone(a) THEN "info_adf_unavailable" ELSE "write_adf")
          /\ pc' = AfterAdf(a)
    /\ UNCHANGED << env, exc, idx, y, ex, order, aic, res, attempts, returned, next_day,
                    ex_future, y_hat, lower, upper, notes, msgs, run, prev, apivars >>

\* Before auto_arimax has returned.
NoReturn == [order |-> NoOrder, aic |-> None, res |-> NoRes]

\* (p, d, q), aic, res = ...: unpacking None as a triple raises TypeError.
UnpackRaises(best) == best.order = NoOrder

\* Step 3: the search, the unpacking of its result, and the stop when no
\* model was retained.
Search ==
    /\ pc = "search"
    /\ \E r \in {auto_arimax(fits)} :
          /\ attempts' = r.attempts
          /\ returned' = r.best
          /\ IF UnpackRaises(r.best)
             THEN /\ Raise("TypeError_unpack_None")
                  /\ UNCHANGED << order, aic, res, ui >>
             ELSE /\ order' = r.best.order
                  /\ aic' = r.best.aic
                  /\ res' = r.best.res
                  /\ UNCHANGED exc
                  /\ IF ~r.best.res.fitted
                     THEN /\ ui' = Append(ui, "error_no_valid_model")
                          /\ pc' = "stopped"
                     ELSE /\ ui' = ui
                          /\ pc' = "forecast"
    /\ UNCHANGED << env, idx, y, ex, adf_p, next_day, ex_future,
                    y_hat, lower, upper, notes, msgs, run, prev, apivars >>

\* y.index.max(): the latest day of the training index.
RECURSIVE IndexMax(_)
IndexMax(index) ==
    IF Len(index) = 0 THEN NaT  \* the max of an empty DatetimeIndex
    ELSE IF Len(index) = 1 THEN index[1]
    ELSE LET m == IndexMax(Tail(index))
         IN IF index[1] > m THEN index[1] ELSE m

\* last_day + timedelta(days=1); NaT plus a timedelta is NaT.
NextDayOf(last_day) == IF last_day = NaT THEN NaT ELSE last_day + 1

FirstRow(frame) == frame[1]
\* ex.iloc[-1]: the last row of the exogenous frame.
LastRow(frame) == frame[Len(frame)]

\* pd.DataFrame([ex.iloc[-1]], index=[next_day]): one row, the values of the
\* last observed one, indexed at next_day.
ExFuture(frame, day) ==
    << [index |-> day,
        temperature |-> LastRow(frame).temperature,
        humidity |-> LastRow(frame).humidity] >>

\* Steps 4 to 6: the +1 forecast with the exogenous row in persistence, the
\* projection onto non-negative integers, the chart and the two metrics.
Forecast ==
    /\ pc = "forecast"
    /\ next_day' = NextDayOf(IndexMax(idx))
    /\ IF Len(ex) = 0
       THEN \* ex.iloc[-1] on an empty frame, after next_day was assigned
            /\ Raise("IndexError_iloc")
            /\ UNCHANGED << ex_future, y_hat, lower, upper, ui >>
       ELSE \E lower_raw \in {PyMin(fc_env.c0, fc_env.c1)},
               upper_raw \in {PyMax(fc_env.c0, fc_env.c1)} :
               /\ ex_future' = ExFuture(ex, NextDayOf(IndexMax(idx)))
               /\ IF RoundRaises(fc_env.mean)
                  THEN /\ Raise("round_of_non_finite")
                       /\ UNCHANGED << y_hat, lower, upper, ui >>
                  ELSE /\ y_hat' = Clamp(Round(fc_env.mean))
                       /\ IF RoundRaises(lower_raw)
                          THEN /\ Raise("round_of_non_finite")
                               /\ UNCHANGED << lower, upper, ui >>
                          ELSE /\ lower' = Clamp(Round(lower_raw))
                               /\ IF RoundRaises(upper_raw)
                                  THEN /\ Raise("round_of_non_finite")
                                       /\ UNCHANGED << upper, ui >>
                                  ELSE /\ upper' = Clamp(Round(upper_raw))
                                       /\ ui' = ui \o << "chart", "metric_forecast",
                                                         "metric_interval" >>
                                       /\ pc' = "diag"
                                       /\ UNCHANGED exc
    /\ UNCHANGED << env, idx, y, ex, adf_p, order, aic, res, attempts, returned,
                    notes, msgs, run, prev, apivars >>

\* Step 7: y_std = float(std) if std > 0 else None, then the fidelity notes.
Diag ==
    /\ pc = "diag"
    /\ \E y_std \in {IF Gt(diag_env.std, Q(0, 1)) THEN diag_env.std ELSE None} :
          notes' = gentle_fidelity_notes(diag_env.rmse, y_std)
    /\ ui' = ui \o << "metric_mae", "metric_rmse", "metric_aic" >>
    /\ pc' = "interp"
    /\ UNCHANGED << env, exc, idx, y, ex, adf_p, order, aic, res, attempts, returned, next_day,
                    ex_future, y_hat, lower, upper, msgs, run, prev, apivars >>

\* Step 8: the interpretation of (p, d, q) and of the ADF p-value.
Interp ==
    /\ pc = "interp"
    /\ msgs' = dynamic_pdq_interpretation(order[1], order[2], order[3], adf_p)
    /\ pc' = "done"
    /\ UNCHANGED << env, exc, idx, y, ex, adf_p, order, aic, res, attempts, returned, next_day,
                    ex_future, y_hat, lower, upper, notes, ui, run, prev, apivars >>

NextMain == Load \/ Adf \/ Search \/ Forecast \/ Diag \/ Interp

(***************************************************************************)
(* Calls of the weather-API client.  api_call records the operation, its   *)
(* arguments and what each request met.                                    *)
(***************************************************************************)
ApiIdle == api_pc = "idle" /\ api_call = <<>> /\ api_ret = RetNone

Called(op, rs, first, last, ret) ==
    /\ api_call' = [op |-> op, responses |-> rs, first |-> first, last |-> last]
    /\ api_ret' = ret
    /\ api_pc' = IF ret.kind = "raised" THEN "raised" ELSE "returned"
    /\ UNCHANGED mainvars

TestApiKey ==
    /\ api_pc = "idle"
    /\ \E r \in Responses : Called("test_api_key", << r >>, 1, 1, test_api_key(r))

GetCitySuggestions ==
    /\ api_pc = "idle"
    /\ \E r \in Responses :
          Called("get_city_suggestions", << r >>, 1, 1, get_city_suggestions(r))

GeocodeCity ==
    /\ api_pc = "idle"
    /\ \E r \in Responses : Called("geocode_city", << r >>, 1, 1, geocode_city(r))

GetHistoricalWeatherData ==
    /\ api_pc = "idle"
    /\ \E start_date \in 1..MaxDates, end_date \in 0..MaxDates :
          \E rs \in [1..MaxDates -> Responses] :
             /\ \A dd \in 1..MaxDates : (dd < start_date \/ dd > end_date) => rs[dd] = Down
             /\ Called("get_historical_weather_data", rs, start_date, end_date,
                       get_historical_weather_data(start_date, end_date, rs))

GetFutureWeatherExog ==
    /\ api_pc = "idle"
    /\ \E r \in Responses, horizon_days \in 1..MaxDates :
          Called("get_future_weather_exog", << r >>, 1, horizon_days,
                 get_future_weather_exog(r, horizon_days))

NextApi ==
    \/ TestApiKey
    \/ GetCitySuggestions
    \/ GeocodeCity
    \/ GetHistoricalWeatherData
    \/ GetFutureWeatherExog

(***************************************************************************)
(* What the libraries may answer, and the input tables.                    *)
(***************************************************************************)
\* The aic of a fit that succeeds: two finite scores, minus infinity, and
\* the two values that never compare below the running best.
Scores == {Q(1, 1), Q(2, 1), NegInf, NaN, PosInf}

\* The sets of at most k orders.
RECURSIVE OrdersUpTo(_)
OrdersUpTo(k) ==
    IF k = 0 THEN {{}}
    ELSE LET fewer == OrdersUpTo(k - 1)
         IN fewer \cup {D \cup {c} : D \in fewer, c \in GridSet}

AllFail == [c \in {} |-> NaN]
OneOk(c, s) == [x \in {c} |-> s]

AdfOutcomes == {None, NaN} \cup {Q(v, 100) : v \in 0..MaxPValue}

RawValues == {Q(n, Denom) : n \in (-MaxRaw)..MaxRaw} \cup {NaN, PosInf, NegInf}
\* q * se, the half-width of the 95% interval: not negative, or NaN, or
\* infinite.
HalfWidths == {Q(n, Denom) : n \in 0..MaxRaw} \cup {NaN, PosInf}
\* fc.conf_int(alpha=0.05).iloc[0]: mean - q*se and mean + q*se.  main reads
\* the two columns by position and does not rely on which comes first, so
\* both column orders are drawn.
ConfInt(mean, h) ==
    {[mean |-> mean, c0 |-> FSub(mean, h), c1 |-> FAdd(mean, h)],
     [mean |-> mean, c0 |-> FAdd(mean, h), c1 |-> FSub(mean, h)]}
FcOutcomes == UNION {ConfInt(mean, h) : mean \in RawValues, h \in HalfWidths}

SpreadValues == {Q(n, Denom) : n \in 0..MaxRaw} \cup {NaN}
\* A spread of one millionth: positive, and far below the data's unit.
TinySpread == Q(1, 1000000)
StdValues == SpreadValues \cup {TinySpread}
DiagOutcomes == [rmse : SpreadValues, std : StdValues]

\* Rows whose four cells parse, and rows with one cell that does not.
Row(date, temp, hum, n) ==
    [Date |-> date, temperature_mean |-> temp,
     relativehumidity_mean |-> hum, males |-> n]
Unparseable == Cell(FALSE, 0)
GoodRows ==
    {Row(Cell(TRUE, dd), Cell(TRUE, t), Cell(TRUE, 50), Cell(TRUE, n)) :
        dd \in 1..MaxDay, t \in {10, 20}, n \in 0..MaxCount}
BadRows ==
    {Row(Unparseable, Cell(TRUE, 10), Cell(TRUE, 50), Cell(TRUE, 1)),
     Row(Cell(TRUE, 1), Unparseable, Cell(TRUE, 50), Cell(TRUE, 1)),
     Row(Cell(TRUE, 1), Cell(TRUE, 10), Unparseable, Cell(TRUE, 1)),
     Row(Cell(TRUE, 1), Cell(TRUE, 10), Cell(TRUE, 50), Unparseable)}
Rows == GoodRows \cup BadRows
Tables == UNION {[1..n -> Rows] : n \in 0..MaxRows}

SampleTable ==
    << Row(Cell(TRUE, 1), Cell(TRUE, 10), Cell(TRUE, 50), Cell(TRUE, 1)),
       Row(Cell(TRUE, 3), Cell(TRUE, 20), Cell(TRUE, 50), Cell(TRUE, 0)) >>
SampleFits == {AllFail, OneOk(<<1, 0, 1>>, Q(1, 1))}
SampleAdf == Q(5, 100)
SampleFc == [mean |-> Q(1, Denom), c0 |-> Q(-1, Denom), c1 |-> Q(MaxRaw, Denom)]
SampleDiag == [rmse |-> Q(1, Denom), std |-> Q(1, Denom)]

\* The state in which a request starts.
Start ==
    /\ pc = "load" /\ exc = "none"
    /\ idx = <<>> /\ y = <<>> /\ ex = <<>>
    /\ adf_p = None
    /\ order = NoOrder /\ aic = None /\ res = NoRes /\ attempts = <<>>
    /\ returned = NoReturn
    /\ next_day = Unassigned /\ ex_future = <<>>
    /\ y_hat = Unassigned /\ lower = Unassigned /\ upper = Unassigned
    /\ notes = <<>> /\ msgs = <<>> /\ ui = <<>>

\* Requests over every input table.
Init ==
    /\ table \in Tables
    /\ fits \in SampleFits
    /\ adf_env = SampleAdf
    /\ fc_env = SampleFc
    /\ diag_env = SampleDiag
    /\ Start
    /\ run = 1 /\ prev = <<>>
    /\ ApiIdle

Spec == Init /\ [][NextMain]_vars

\* Requests over every raw forecast and every diagnostic input.
InitForecast ==
    /\ table = SampleTable
    /\ fits = OneOk(<<1, 0, 1>>, Q(1, 1))
    /\ adf_env = SampleAdf
    /\ fc_env \in FcOutcomes
    /\ diag_env = SampleDiag
    /\ Start
    /\ run = 1 /\ prev = <<>>
    /\ ApiIdle

SpecForecast == InitForecast /\ [][NextMain]_vars

OkOrderSets == OrdersUpTo(MaxOk)
SamplePrepared == load_cicalino_data(SampleTable)

\* Requests that have reached the order search, over every outcome of the
\* fits in which at most MaxOk succeed.
InitSearch ==
    /\ table = SampleTable
    /\ \E D \in OkOrderSets : fits \in [D -> Scores]
    /\ adf_env = SampleAdf
    /\ fc_env = SampleFc
    /\ diag_env = SampleDiag
    /\ pc = "search" /\ exc = "none"
    /\ idx = SamplePrepared.index
    /\ y = SamplePrepared.y
    /\ ex = SamplePrepared.ex
    /\ adf_p = SampleAdf
    /\ order = NoOrder /\ aic = None /\ res = NoRes /\ attempts = <<>>
    /\ returned = NoReturn
    /\ next_day = Unassigned /\ ex_future = <<>>
    /\ y_hat = Unassigned /\ lower = Unassigned /\ upper = Unassigned
    /\ notes = <<>> /\ msgs = <<>> /\ ui = << "write_adf" >>
    /\ run = 1 /\ prev = <<>>
    /\ ApiIdle

NextSearch == Search

SpecSearch == InitSearch /\ [][NextSearch]_vars

\* Requests over every retained order, every outcome of the stationarity
\* test and every diagnostic input.
InitNotes ==
    /\ table = SampleTable
    /\ fits \in {OneOk(c, Q(1, 1)) : c \in GridSet}
    /\ adf_env \in AdfOutcomes
    /\ fc_env = SampleFc
    /\ diag_env \in DiagOutcomes
    /\ Start
    /\ run = 1 /\ prev = <<>>
    /\ ApiIdle

SpecNotes == InitNotes /\ [][NextMain]_vars

(***************************************************************************)
(* The same request made twice: the page is re-executed from scratch on    *)
(* the same data, the libraries answer as before, and only the outcome of  *)
(* the stationarity test is allowed to differ.                             *)
(***************************************************************************)
Terminal == pc \in {"done", "stopped", "raised"}

\* What a request decides: where it ends, the selected model and the
\* forecast.
Outputs ==
    [pc |-> pc, exc |-> exc, order |-> order, aic |-> aic, res |-> res,
     y_hat |-> y_hat, lower |-> lower, upper |-> upper]

Rerun ==
    /\ Terminal
    /\ run = 1
    /\ run' = 2
    /\ prev' = [out |-> Outputs, adf_p |-> adf_p, msgs |-> msgs]
    /\ adf_env' \in AdfOutcomes
    /\ pc' = "load" /\ exc' = "none"
    /\ idx' = <<>> /\ y' = <<>> /\ ex' = <<>>
    /\ adf_p' = None
    /\ order' = NoOrder /\ aic' = None /\ res' = NoRes /\ attempts' = <<>>
    /\ returned' = NoReturn
    /\ next_day' = Unassigned /\ ex_future' = <<>>
    /\ y_hat' = Unassigned /\ lower' = Unassigned /\ upper' = Unassigned
    /\ notes' = <<>> /\ msgs' = <<>> /\ ui' = <<>>
    /\ UNCHANGED << table, fits, fc_env, diag_env, apivars >>

NextPair == NextMain \/ Rerun

InitPair ==
    /\ table \in {SampleTable, <<>>}
    /\ \E D \in OrdersUpTo(1) : fits \in [D -> Scores]
    /\ adf_env \in AdfOutcomes
    /\ fc_env = SampleFc
    /\ diag_env = SampleDiag
    /\ Start
    /\ run = 1 /\ prev = <<>>
    /\ ApiIdle

SpecPair == InitPair /\ [][NextPair]_vars

\* The weather-API client, called once with any operation.
InitApi ==
    /\ table = SampleTable
    /\ fits = AllFail
    /\ adf_env = SampleAdf
    /\ fc_env = SampleFc
    /\ diag_env = SampleDiag
    /\ Start
    /\ run = 1 /\ prev = <<>>
    /\ ApiIdle

SpecApi == InitApi /\ [][NextApi]_vars

(***************************************************************************)
(* The order search: claims C1, C2 and C4, checked under SpecSearch.       *)
(***************************************************************************)
\* The search has returned to main.
SearchOver == pc # "search"
Retained == order # NoOrder
Succeeded == DOMAIN fits

\* c1 is visited before c2: p outer, d middle, q inner, each ascending.
VisitedBefore(c1, c2) ==
    \/ c1[1] < c2[1]
    \/ c1[1] = c2[1] /\ c1[2] < c2[2]
    \/ c1[1] = c2[1] /\ c1[2] = c2[2] /\ c1[3] < c2[3]

\* C1 as stated: the retained model is a successful candidate whose score is
\* <= the score of every successful candidate, and no successful candidate
\* with the same score is visited before it.
C1_RetainedIsLowestOfAll ==
    (SearchOver /\ Retained) =>
        /\ order \in Succeeded
        /\ aic = fits[order]
        /\ \A c \in Succeeded : Le(aic, fits[c])
        /\ \A c \in Succeeded : Eq(fits[c], aic) => ~VisitedBefore(c, order)

\* C1 as amended: the retained model is a successful candidate whose score is
\* <= the score of every successful candidate whose score is not NaN, and no
\* successful candidate with the same score is visited before it.
C1_RetainedIsLowestOfComparable ==
    (SearchOver /\ Retained) =>
        /\ order \in Succeeded
        /\ aic = fits[order]
        /\ \A c \in Succeeded : ~IsNaN(fits[c]) => Le(aic, fits[c])
        /\ \A c \in Succeeded : Eq(fits[c], aic) => ~VisitedBefore(c, order)

\* Two successful candidates share the lowest score and the one visited
\* first is retained.
C1_Witness ==
    /\ SearchOver /\ Retained
    /\ \E c \in Succeeded : c # order /\ Eq(fits[c], aic) /\ VisitedBefore(order, c)

\* C2: when every fit fails the request shows "no valid model found" and
\* stops, with no forecast and no unhandled exception.
C2_AllFailShowsErrorAndStops ==
    (SearchOver /\ Succeeded = {}) =>
        /\ pc = "stopped"
        /\ exc = "none"
        /\ \E i \in 1..Len(ui) : ui[i] = "error_no_valid_model"
        /\ y_hat = Unassigned /\ lower = Unassigned /\ upper = Unassigned

\* C4: whatever fits fail, each of the 32 orders of {0..3} x {0,1} x {0..3}
\* is attempted exactly once, and a returned order lies in that grid.
C4_EveryOrderAttemptedOnce ==
    SearchOver =>
        /\ Len(attempts) = 32
        /\ \A c \in (0..3) \X (0..1) \X (0..3) :
              Cardinality({i \in 1..Len(attempts) : attempts[i] = c}) = 1
        /\ Retained => order \in (0..3) \X (0..1) \X (0..3)

\* A fit fails and a candidate visited after it is attempted and retained.
C4_Witness ==
    /\ SearchOver /\ Retained
    /\ \E c \in GridSet \ Succeeded : VisitedBefore(c, order)
    /\ \E i \in 1..Len(attempts) : attempts[i] = order

(***************************************************************************)
(* The forecaster: claim C3, checked under SpecForecast.                   *)
(***************************************************************************)
\* The point forecast and the interval have been computed and shown.
ForecastShown == pc \in {"diag", "interp", "done"}

\* C3: whatever the raw mean and the raw bounds, the displayed point
\* forecast, lower and upper are integers >= 0 and lower <= upper.
C3_ForecastNonNegativeOrdered ==
    ForecastShown =>
        /\ y_hat \in Nat /\ lower \in Nat /\ upper \in Nat
        /\ lower <= upper

\* A negative raw mean and a raw interval that straddles zero, given upper
\* bound first, are shown as 0 and as an interval from 0.
C3_Witness ==
    /\ ForecastShown
    /\ Lt(fc_env.mean, Q(0, 1))
    /\ Lt(fc_env.c1, Q(0, 1)) /\ Gt(fc_env.c0, Q(0, 1))
    /\ y_hat = 0 /\ lower = 0 /\ upper > 0

(***************************************************************************)
(* The interpreter: claims C6 and C7, checked under SpecNotes.             *)
(***************************************************************************)
Interpreted == pc = "done"

\* C6 as stated: the d-message follows the table; with d = 0 an unavailable
\* p-value gives the same message as a p-value >= 0.05.
C6_DMessageTable ==
    Interpreted =>
        /\ (order[2] = 0 /\ ~IsNone(adf_p) /\ Lt(adf_p, Q(5, 100)))
              => msgs[1] = "d0_already_stationary"
        /\ (order[2] = 0 /\ (IsNone(adf_p) \/ Ge(adf_p, Q(5, 100))))
              => msgs[1] = "d0_handled_by_arma_or_exog"
        /\ (order[2] >= 1 /\ ~IsNone(adf_p) /\ Ge(adf_p, Q(5, 100)))
              => msgs[1] = "d_differencing_applied"
        /\ (order[2] >= 1 /\ ~IsNone(adf_p) /\ Lt(adf_p, Q(5, 100)))
              => msgs[1] = "d_prefers_differencing"

\* C6 as amended: as stated for an available p-value; an unavailable
\* p-value gives, for every d, the message that the degree of differencing
\* was selected for the stability of the model.
C6_DMessageTableWithUnavailable ==
    Interpreted =>
        /\ (order[2] = 0 /\ ~IsNone(adf_p) /\ Lt(adf_p, Q(5, 100)))
              => msgs[1] = "d0_already_stationary"
        /\ (order[2] = 0 /\ ~IsNone(adf_p) /\ Ge(adf_p, Q(5, 100)))
              => msgs[1] = "d0_handled_by_arma_or_exog"
        /\ (order[2] >= 1 /\ ~IsNone(adf_p) /\ Ge(adf_p, Q(5, 100)))
              => msgs[1] = "d_differencing_applied"
        /\ (order[2] >= 1 /\ ~IsNone(adf_p) /\ Lt(adf_p, Q(5, 100)))
              => msgs[1] = "d_prefers_differencing"
        /\ IsNone(adf_p) => msgs[1] = "d_selected_for_stability"

\* d = 0 was selected, the test was unavailable, and the message is the one
\* about the stability of the model.
C6_Witness ==
    /\ Interpreted
    /\ order[2] = 0 /\ IsNone(adf_p)
    /\ msgs[1] = "d_selected_for_stability"

Diagnosed == pc \in {"interp", "done"}
RatioMessages == {"contained", "in_line", "exceed"}

\* C7: for a defined, non-zero sigma the ratio RMSE / sigma selects exactly
\* one message: below 0.5 contained, from 0.5 and below 1.0 in line, from 1.0
\* exceed.  (2 * rmse < sigma states ratio < 0.5, rmse < sigma ratio < 1.0.)
C7_RatioBuckets ==
    (Diagnosed /\ Gt(diag_env.std, Q(0, 1))) =>
        /\ Cardinality({i \in 1..Len(notes) : notes[i] \in RatioMessages}) = 1
        /\ \A i \in 1..Len(notes) : notes[i] # "low_variability"
        /\ IsFinite(diag_env.rmse) =>
              LET r == diag_env.rmse.n * diag_env.std.d
                  sg == diag_env.std.n * diag_env.rmse.d
              IN /\ (2 * r < sg) => notes[1] = "contained"
                 /\ (2 * r >= sg /\ r < sg) => notes[1] = "in_line"
                 /\ (r >= sg) => notes[1] = "exceed"

\* The ratio is exactly 0.5 and the message is the one for "in line".
C7_Witness ==
    /\ Diagnosed
    /\ IsFinite(diag_env.rmse) /\ Gt(diag_env.std, Q(0, 1))
    /\ 2 * diag_env.rmse.n * diag_env.std.d = diag_env.std.n * diag_env.rmse.d
    /\ notes[1] = "in_line"

(***************************************************************************)
(* Series preparation: claims C8 and C9, checked under Spec.               *)
(***************************************************************************)
LoadOver == pc # "load"
LoadReturned == LoadOver /\ exc # "ValueError_duplicate_labels"

\* C8: for every input table load_cicalino_data returns a series and an
\* exogenous matrix on one index that advances by one day per entry, with no
\* missing value in the three interpolated columns.
C8_PreparedSeriesDailyAndComplete ==
    LoadOver =>
        /\ LoadReturned
        /\ Len(y) = Len(idx) /\ Len(ex) = Len(idx)
        /\ \A t \in 1..(Len(idx) - 1) : idx[t + 1] = idx[t] + 1
        /\ \A t \in 1..Len(idx) :
              /\ ~IsNaN(y[t])
              /\ ~IsNaN(ex[t].temperature)
              /\ ~IsNaN(ex[t].humidity)

\* C9: when the prepared series is empty the request does not go on to the
\* order search and does not end with an unhandled exception.
C9_EmptySeriesNeverSearched ==
    (LoadReturned /\ Len(y) = 0) =>
        /\ pc \notin {"search", "forecast", "diag", "interp", "done"}
        /\ attempts = <<>>
        /\ pc # "raised"

(***************************************************************************)
(* The stationarity test is advisory: claim C10, checked under SpecPair.   *)
(***************************************************************************)
\* C10: two requests on the same data that differ only in the outcome of the
\* stationarity test end in the same place with the same selected order,
\* score, point forecast and interval.
C10_ProbeDoesNotChangeOutputs ==
    (run = 2 /\ Terminal) => Outputs = prev.out

\* The second request saw another outcome of the test than the first, both
\* reached the interpretation, and the advisory text differs.
C10_Witness ==
    /\ run = 2 /\ pc = "done"
    /\ prev.adf_p # adf_p
    /\ prev.msgs # msgs
    /\ prev.out.y_hat = y_hat

(***************************************************************************)
(* The weather-API client: claim C5, checked under SpecApi.                *)
(***************************************************************************)
\* The requests the call made: the days of the range for the historical
\* data, the single request otherwise.
RequestsMade ==
    IF api_call.op = "get_historical_weather_data"
    THEN {dd \in 1..MaxDates : api_call.first <= dd /\ dd <= api_call.last}
    ELSE {1}

\* An HTTP failure: no response, a status outside 2xx, or a payload that is
\* not JSON, not the container the operation reads, or lacks a key it reads.
HttpFailure(op, r) ==
    \/ r.net = "down"
    \/ r.status \notin 200..299
    \/ op # "test_api_key" /\
          \/ r.body.kind = "not_json"
          \/ r.body.kind = (IF op \in {"get_city_suggestions", "geocode_city"}
                            THEN "object" ELSE "list")
          \/ \E i \in 1..Len(r.body.items) : ~r.body.items[i].ok

EmptyValue(op) ==
    IF op = "test_api_key" THEN RetBool(FALSE)
    ELSE IF op = "get_city_suggestions" THEN RetList(<<>>)
    ELSE IF op = "geocode_city" THEN RetNonePair
    ELSE RetNone

\* C5: every operation returns its empty value when a request it makes meets
\* an HTTP failure, and no exception escapes it.
C5_ApiFailuresRecovered ==
    api_pc # "idle" =>
        /\ api_pc # "raised"
        /\ (\E i \in RequestsMade : HttpFailure(api_call.op, api_call.responses[i]))
              => api_ret = EmptyValue(api_call.op)

(***************************************************************************)
(* Claim C11: the single future exogenous row passed to the forecaster has *)
(* the temperature and the humidity of the last observed exogenous row and *)
(* is indexed at exactly the day after the last day of the training index. *)
(***************************************************************************)
ExFutureBuilt == ex_future # <<>>

\* C11: the future exogenous row is one row, equal to the last observed
\* row in temperature and humidity, indexed the day after the last (and
\* latest) day of the training index.
C11_FutureRowIsLastRowAtNextDay ==
    ExFutureBuilt =>
        /\ Len(ex_future) = 1
        /\ Len(ex) >= 1 /\ Len(idx) = Len(ex)
        /\ ex_future[1].temperature = ex[Len(ex)].temperature
        /\ ex_future[1].humidity = ex[Len(ex)].humidity
        /\ ex_future[1].index = idx[Len(idx)] + 1
        /\ \A t \in 1..Len(idx) : idx[t] < ex_future[1].index
        /\ next_day = ex_future[1].index

\* A request whose training frame has several days with different
\* temperatures on the first and the last one has built the future row.
C11_Witness ==
    /\ ExFutureBuilt
    /\ Len(ex) >= 2
    /\ ex[1].temperature # ex[Len(ex)].temperature

(***************************************************************************)
(* Claim C12, checked under SpecForecast: the code takes (min, max) of the *)
(* raw bounds, then rounds, then clamps; the documented sequence rounds    *)
(* each bound, clamps each, then takes (min, max).                         *)
(***************************************************************************)
ForecastOver == pc \in {"diag", "interp", "done", "raised"}
IntMin(a, b) == IF b < a THEN b ELSE a
IntMax(a, b) == IF b > a THEN b ELSE a
BoundsReal == IsFinite(fc_env.c0) /\ IsFinite(fc_env.c1)
DocumentedLower == IntMin(Clamp(Round(fc_env.c0)), Clamp(Round(fc_env.c1)))
DocumentedUpper == IntMax(Clamp(Round(fc_env.c0)), Clamp(Round(fc_env.c1)))

\* C12: for every pair of raw interval bounds, the (lower, upper) the
\* forecaster outputs is what round, then clamp, then (min, max) gives:
\* an interval is output for every real-valued mean and pair of bounds, only
\* for real-valued bounds, and it equals the documented result.
C12_IntervalEqualsDocumentedSequence ==
    /\ (ForecastOver /\ IsFinite(fc_env.mean) /\ BoundsReal) => ForecastShown
    /\ ForecastShown =>
          /\ BoundsReal
          /\ lower = DocumentedLower
          /\ upper = DocumentedUpper

\* The bounds come upper first, the lower one is negative and is clamped,
\* and the interval shown is not a single point.
C12_Witness ==
    /\ ForecastShown
    /\ Gt(fc_env.c0, fc_env.c1)
    /\ Lt(fc_env.c1, Q(0, 1))
    /\ lower = 0 /\ upper > 0

(***************************************************************************)
(* Claim C13, checked under SpecNotes.  A spread counts as near zero when  *)
(* it is positive and at most one millionth; the code applies no tolerance *)
(* at all, so every positive tolerance gives the same verdict.             *)
(***************************************************************************)
SigmaZero == Eq(diag_env.std, Q(0, 1))
SigmaUndefined == IsNaN(diag_env.std)
SigmaNearZero == Gt(diag_env.std, Q(0, 1)) /\ Le(diag_env.std, TinySpread)
OnlyLowVariability ==
    /\ \E i \in 1..Len(notes) : notes[i] = "low_variability"
    /\ \A i \in 1..Len(notes) : notes[i] \notin RatioMessages
RatioNoteOnlyForValidSigma ==
    (\E i \in 1..Len(notes) : notes[i] \in RatioMessages) =>
        (IsFinite(diag_env.std) /\ ~SigmaZero)

\* C13 as stated: when sigma is zero, undefined (NaN) or near zero, the
\* diagnostics report the low-variability note and no ratio-based note,
\* and no ratio note comes from a zero or undefined divisor.
C13_DegenerateSigmaGivesLowVariability ==
    Diagnosed =>
        /\ (SigmaZero \/ SigmaUndefined \/ SigmaNearZero) => OnlyLowVariability
        /\ RatioNoteOnlyForValidSigma

\* C13 amended: when sigma is zero or undefined (NaN), the diagnostics
\* report the low-variability note and no ratio-based note, whether the
\* value reaches gentle_fidelity_notes as None, as 0 or as NaN, and no ratio
\* note comes from a zero or undefined divisor.
C13_ZeroOrUndefinedSigmaGivesLowVariability ==
    Diagnosed =>
        /\ (SigmaZero \/ SigmaUndefined) => OnlyLowVariability
        /\ RatioNoteOnlyForValidSigma
        /\ \A s \in {None, Q(0, 1), NaN} :
              gentle_fidelity_notes(diag_env.rmse, s) = << "low_variability" >>

\* The diagnostics ran on a sigma of zero with a positive RMSE.
C13_Witness ==
    /\ Diagnosed
    /\ SigmaZero
    /\ Gt(diag_env.rmse, Q(0, 1))
    /\ notes = << "low_variability" >>

(***************************************************************************)
(* Claim C14, checked under SpecSearch.                                    *)
(***************************************************************************)
\* A score that is NaN or +infinity.
Unretainable(s) == IsNaN(s) \/ s = PosInf
NothingRetained == [order |-> NoOrder, aic |-> PosInf, res |-> NoRes]

\* C14: a candidate whose fit succeeds with a score of NaN or +infinity is
\* never retained by auto_arimax; if every successful fit has such a score
\* auto_arimax returns the (None, +infinity, None) it returns when every fit
\* fails; otherwise a candidate is retained and its score is finite or
\* minus infinity, and strictly below +infinity.
C14_NaNAndInfinityNeverRetained ==
    SearchOver =>
        /\ returned.order # NoOrder =>
              /\ returned.order \in Succeeded
              /\ ~Unretainable(fits[returned.order])
              /\ returned.aic = fits[returned.order]
              /\ returned.res = Res(returned.order)
        /\ (\A c \in Succeeded : Unretainable(fits[c])) => returned = NothingRetained
        /\ (\E c \in Succeeded : ~Unretainable(fits[c])) =>
              /\ returned.order # NoOrder
              /\ IsFinite(returned.aic) \/ returned.aic = NegInf
              /\ Lt(returned.aic, PosInf)

\* Fits succeeded, one with NaN and one with +infinity, and the search
\* returned what it returns when every fit fails.
C14_Witness ==
    /\ SearchOver
    /\ \E c \in Succeeded : IsNaN(fits[c])
    /\ \E c \in Succeeded : fits[c] = PosInf
    /\ returned = NothingRetained

====
